---------------------------- MODULE Spec2Model ----------------------------
(***************************************************************************)
(* MoveMap AI: the feature / risk pipeline (movemap_helpers.py), the       *)
(* Streamlit handler and its helpers (movemap_ai.py) and the marker colour *)
(* scale (movemap_map.py).                                                 *)
(*                                                                         *)
(* Numbers.  Python floats are modelled as exact rationals plus the three  *)
(* IEEE specials: [k |-> "num", n, d] is n/d in lowest terms with d > 0,   *)
(* [k |-> "inf"] carries its sign in n, [k |-> "nan"] is not-a-number.     *)
(* Rounding of the binary representation is not modelled.                  *)
(*                                                                         *)
(* Strings that the code takes apart or builds digit by digit (the hex     *)
(* colours) are sequences of one-character strings.                        *)
(***************************************************************************)
EXTENDS Integers, Sequences, FiniteSets, TLC

VARIABLES
    risk_value,   \* scale_color: the argument of the call
    color,        \* scale_color: the returned string, None before the call
    impl,         \* make_features: the module called, "helpers" or "ai"
    census,       \* make_features: the frame passed, a sequence of rows
    feats,        \* make_features: the outcomes of the calls so far
    frames,       \* the data frames of a modelling run, by role
    stage,        \* how far each of them is: "none", "raw", "featured"
    args,         \* the arguments each of them was generated with
    result,       \* the outcome of the run's training call
    pc,           \* the Analyze Location handler: where the run stands
    user_input,   \* the text in the location box
    coords,       \* what get_location_coords returned
    tract,        \* what get_census_tract_from_coords returned
    data,         \* the run's frame: census, then df
    steps,        \* the functions the run has called, in order
    errors,       \* the st.error messages the run has shown
    infos,        \* the st.warning and st.info messages the run has shown
    shown         \* the metric and caption the run has displayed

colorVars == <<risk_value, color>>
featVars == <<impl, census, feats>>
modelVars == <<frames, stage, args>>
runVars == <<pc, user_input, coords, tract, data, steps, errors, infos, shown>>
vars == <<risk_value, color, impl, census, feats, frames, stage, args, result,
          pc, user_input, coords, tract, data, steps, errors, infos, shown>>

None == "None"

-----------------------------------------------------------------------------
(* Bounds of the model *)

\* risk arguments are the multiples of 1/RiskScale
RiskScale == 2
\* risk arguments range over [-RiskMargin, 100 + RiskMargin]
RiskMargin == 10
\* make_synthetic_dataset is called with n up to MaxRows for the training frame
MaxRows == 6
\* and with n up to MaxTestRows for the test frame
MaxTestRows == 2

-----------------------------------------------------------------------------
(* Float arithmetic *)

Abs(x) == IF x < 0 THEN -x ELSE x

RECURSIVE GCD(_, _)
GCD(a, b) == IF b = 0 THEN a ELSE GCD(b, a % b)

Nan == [k |-> "nan", n |-> 0, d |-> 1]
PosInf == [k |-> "inf", n |-> 1, d |-> 1]
NegInf == [k |-> "inf", n |-> -1, d |-> 1]

\* n/d with d # 0, in lowest terms
Rat(n, d) ==
    LET g == GCD(Abs(n), Abs(d))
        s == IF d < 0 THEN -1 ELSE 1
    IN  [k |-> "num", n |-> (s * n) \div g, d |-> (s * d) \div g]

IsNum(a) == a.k = "num"
IsNan(a) == a.k = "nan"
IsInf(a) == a.k = "inf"

\* a <= b as Python compares floats: every comparison with NaN is False
FLe(a, b) ==
    CASE IsNan(a) \/ IsNan(b) -> FALSE
      [] IsInf(a) /\ IsInf(b) -> a.n <= b.n
      [] IsInf(a) -> a.n < 0
      [] IsInf(b) -> b.n > 0
      [] OTHER -> a.n * b.d <= b.n * a.d

\* a > b as Python compares floats
FGt(a, b) == ~IsNan(a) /\ ~IsNan(b) /\ ~FLe(a, b)

LCM(a, b) == (a \div GCD(a, b)) * b

Sign(x) == IF x > 0 THEN 1 ELSE IF x < 0 THEN -1 ELSE 0

Inf(s) == IF s < 0 THEN NegInf ELSE PosInf

\* a + b
FAdd(a, b) ==
    CASE IsNan(a) \/ IsNan(b) -> Nan
      [] IsInf(a) /\ IsInf(b) -> IF a.n = b.n THEN a ELSE Nan
      [] IsInf(a) -> a
      [] IsInf(b) -> b
      [] OTHER -> LET m == LCM(a.d, b.d)
                  IN  Rat(a.n * (m \div a.d) + b.n * (m \div b.d), m)

\* a * b
FMul(a, b) ==
    CASE IsNan(a) \/ IsNan(b) -> Nan
      [] IsInf(a) \/ IsInf(b) ->
            IF a.n = 0 \/ b.n = 0 THEN Nan ELSE Inf(Sign(a.n) * Sign(b.n))
      [] OTHER -> LET g1 == GCD(Abs(a.n), b.d)
                      g2 == GCD(Abs(b.n), a.d)
                  IN  Rat((a.n \div g1) * (b.n \div g2), (a.d \div g2) * (b.d \div g1))

\* a / b as numpy divides float arrays: x/0 is +-inf, 0/0 is NaN, nothing is raised
FDiv(a, b) ==
    CASE IsNan(a) \/ IsNan(b) -> Nan
      [] IsInf(a) /\ IsInf(b) -> Nan
      [] IsInf(a) -> Inf(a.n * (IF b.n < 0 THEN -1 ELSE 1))
      [] IsInf(b) -> Rat(0, 1)
      [] b.n = 0 -> IF a.n = 0 THEN Nan ELSE Inf(Sign(a.n))
      [] OTHER -> FMul(a, Rat(b.d, b.n))

\* Series.fillna(0)
FillNa0(a) == IF IsNan(a) THEN Rat(0, 1) ELSE a

\* int(x) of a non-special float n/d: truncation towards zero
Trunc(n, d) == IF n >= 0 THEN n \div d ELSE -((-n) \div d)

-----------------------------------------------------------------------------
(* movemap_map.scale_color *)

colors ==
    << <<"#", "2", "E", "C", "C", "4", "0">>,
       <<"#", "F", "F", "D", "C", "0", "0">>,
       <<"#", "F", "F", "8", "5", "1", "B">>,
       <<"#", "F", "F", "4", "1", "3", "6">>,
       <<"#", "8", "5", "1", "4", "4", "b">> >>

\* np.linspace(0, 100, len(colors))
scale_points == [i \in 1..Len(colors) |-> ((i - 1) * 100) \div (Len(colors) - 1)]

HexDigits == <<"0", "1", "2", "3", "4", "5", "6", "7",
               "8", "9", "a", "b", "c", "d", "e", "f">>
HexUpper == <<"0", "1", "2", "3", "4", "5", "6", "7",
              "8", "9", "A", "B", "C", "D", "E", "F">>

\* int(ch, 16) of one digit: both cases are accepted
HexDigitVal(ch) ==
    CHOOSE v \in 0..15 : HexDigits[v + 1] = ch \/ HexUpper[v + 1] = ch

\* int(s[j:j+2], 16), j counted from 0 as in the code
HexPair(s, j) == 16 * HexDigitVal(s[j + 1]) + HexDigitVal(s[j + 2])

\* tuple(int(c[j:j+2], 16) for j in (1, 3, 5))
HexToRgb(c) == <<HexPair(c, 1), HexPair(c, 3), HexPair(c, 5)>>

\* f'{v:02x}': at least two lower-case hex digits
RECURSIVE HexStr(_)
HexStr(v) == IF v < 16 THEN <<HexDigits[v + 1]>>
             ELSE HexStr(v \div 16) \o <<HexDigits[(v % 16) + 1]>>

Fmt02x(v) == IF v < 0 THEN <<"-">> \o (IF -v < 16 THEN <<HexDigits[1 - v]>> ELSE HexStr(-v))
             ELSE IF v < 16 THEN <<"0", HexDigits[v + 1]>>
             ELSE HexStr(v)

\* f'#{rgb[0]:02x}{rgb[1]:02x}{rgb[2]:02x}'
RgbToHex(rgb) == <<"#">> \o Fmt02x(rgb[1]) \o Fmt02x(rgb[2]) \o Fmt02x(rgb[3])

\* scale_points[i] <= risk_value <= scale_points[i + 1]
InSegment(r, i) ==
    /\ FLe(Rat(scale_points[i], 1), r)
    /\ FLe(r, Rat(scale_points[i + 1], 1))

\* the position taken from 0 instead of from the segment's lower anchor
InterpolateFromZero(c1, c2, r, lo, hi) ==
    Trunc(c1 * (hi - lo) * r.d + (c2 - c1) * r.n, (hi - lo) * r.d)

\* int(c1 + (c2 - c1) * pos), pos = (r - lo) / (hi - lo), for r = n/d
Interpolate(c1, c2, r, lo, hi) ==
    Trunc(c1 * (hi - lo) * r.d + (c2 - c1) * (r.n - lo * r.d), (hi - lo) * r.d)

\* the segment's interpolated colour
SegmentColor(r, i) ==
    LET c1 == HexToRgb(colors[i])
        c2 == HexToRgb(colors[i + 1])
        rgb == [j \in 1..3 |->
                  Interpolate(c1[j], c2[j], r, scale_points[i], scale_points[i + 1])]
    IN  RgbToHex(rgb)

\* return colors[-1] if risk_value > 100 else colors[0]
EdgeColor(r) ==
    IF FGt(r, Rat(100, 1)) THEN colors[Len(colors)] ELSE colors[1]

scale_color(r) ==
    LET hits == {i \in 1..(Len(scale_points) - 1) : InSegment(r, i)}
    IN  IF hits # {}
        THEN SegmentColor(r, CHOOSE i \in hits : \A j \in hits : i <= j)
        ELSE EdgeColor(r)

\* the arguments the model calls scale_color with
RiskInputs ==
    {Rat(n, RiskScale) : n \in (-RiskMargin * RiskScale)..((100 + RiskMargin) * RiskScale)}
        \cup {Nan, PosInf, NegInf}

-----------------------------------------------------------------------------
(* make_features: movemap_helpers.py and movemap_ai.py *)

\* the weighted sum without the final * 100
RiskFormulaUnscaled(ratio, poverty, eviction) ==
    FAdd(FAdd(FMul(Rat(1, 2), ratio),
              FMul(Rat(3, 10), FDiv(poverty, Rat(1000, 1)))),
         FMul(Rat(2, 10), FDiv(eviction, Rat(10, 1))))

\* (0.5 * ratio + 0.3 * (poverty / 1000) + 0.2 * (eviction / 10)) * 100
RiskFormula(ratio, poverty, eviction) ==
    FMul(FAdd(FAdd(FMul(Rat(1, 2), ratio),
                   FMul(Rat(3, 10), FDiv(poverty, Rat(1000, 1)))),
              FMul(Rat(2, 10), FDiv(eviction, Rat(10, 1)))),
         Rat(100, 1))

\* movemap_helpers.make_features, one row of the frame
HelpersFeatureRow(row) ==
    LET ratio == FDiv(row.rent_change_12m, row.median_income)
    IN  row @@ [rent_income_ratio |-> ratio,
                risk_score |-> RiskFormula(ratio, row.poverty_count, row.eviction_rate)]

\* movemap_helpers.make_features: a copy of the frame with the two columns added
HelpersMakeFeatures(frame) == [i \in 1..Len(frame) |-> HelpersFeatureRow(frame[i])]

\* movemap_ai.make_features, one row: ev and zillow are the one-row frames built
\* from the census frame's first row and the two random draws, left-merged on
\* GEOID and on NAME = region_name
AiFeatureRow(row, first, ev, rc) ==
    LET eviction == IF row.GEOID = first.GEOID THEN ev ELSE Nan
        rent == IF row.NAME = first.NAME THEN rc ELSE Nan
        ratio == FDiv(rent, row.median_income)
    IN  row @@ [eviction_rate |-> eviction,
                rent_change_12m |-> rent,
                rent_income_ratio |-> ratio,
                risk_score |-> RiskFormula(FillNa0(ratio), row.poverty_count,
                                           FillNa0(eviction))]

AiMakeFeatures(frame, ev, rc) ==
    [i \in 1..Len(frame) |-> AiFeatureRow(frame[i], frame[1], ev, rc)]

\* round(random.uniform(1, 10), 2)
AiEvictionDraws == {Rat(1, 1), Rat(55, 10), Rat(10, 1)}
\* round(random.uniform(0.02, 0.12), 3)
AiRentDraws == {Rat(2, 100), Rat(12, 100)}

\* the rows make_features is called with
IncomeInputs == {Rat(-30000, 1), Rat(0, 1), Rat(30000, 1), Rat(110000, 1)}
PovertyInputs == {Rat(0, 1), Rat(1200, 1)}
EvictionInputs == {Nan, Rat(0, 1), Rat(12, 1)}
RentInputs == {Nan, Rat(0, 1), Rat(15, 100)}

HelpersRowInputs ==
    [GEOID : {"T1"}, NAME : {"A"}, median_income : IncomeInputs,
     poverty_count : PovertyInputs, eviction_rate : EvictionInputs,
     rent_change_12m : RentInputs]

AiRowInputs ==
    [GEOID : {"T1", "T2"}, NAME : {"A", "B"},
     median_income : {Rat(0, 1), Rat(30000, 1), Rat(90000, 1)},
     poverty_count : {Rat(100, 1), Rat(800, 1)}]

-----------------------------------------------------------------------------
(* movemap_helpers.py: the generators *)

\* f"{name} #{i+1}" for the loop index i of range(n)
SyntheticNameFromZero(name, i) == name \o " #" \o ToString(i)

SyntheticName(name, i) == name \o " #" \o ToString(i + 1)

\* what one pass of the loop draws: random.randint(30000, 110000),
\* random.randint(50, 1200), random.uniform(0.5, 12.0), random.uniform(0.0, 0.15)
SyntheticDraws ==
    {[median_income |-> Rat(30000, 1), poverty_count |-> Rat(50, 1),
      eviction_rate |-> Rat(1, 2), rent_change_12m |-> Rat(0, 1)],
     [median_income |-> Rat(110000, 1), poverty_count |-> Rat(1200, 1),
      eviction_rate |-> Rat(12, 1), rent_change_12m |-> Rat(15, 100)]}

\* make_synthetic_dataset(tract_id, name, n); draws[k] is what pass k draws
make_synthetic_dataset(tract_id, name, n, draws) ==
    [k \in 1..(IF n > 0 THEN n ELSE 0) |->
        [GEOID |-> tract_id, NAME |-> SyntheticName(name, k - 1)] @@ draws[k]]

\* random.randint(35000, 95000), random.randint(100, 900), random.uniform(1, 10),
\* random.uniform(0.02, 0.1)
DummyDraws ==
    {[median_income |-> Rat(35000, 1), poverty_count |-> Rat(100, 1),
      eviction_rate |-> Rat(1, 1), rent_change_12m |-> Rat(2, 100)],
     [median_income |-> Rat(95000, 1), poverty_count |-> Rat(900, 1),
      eviction_rate |-> Rat(10, 1), rent_change_12m |-> Rat(1, 10)]}

\* movemap_helpers.generate_dummy_census_for_tract
HelpersGenerateDummy(tract_id, name, draw) ==
    << [GEOID |-> tract_id, NAME |-> name] @@ draw >>

-----------------------------------------------------------------------------
(* The estimator: sklearn's RandomForestRegressor, abstracted.  A fitted model *)
(* remembers what it was fitted on; its response to a feature row is some one *)
(* of the labels it was fitted on, the same for equal rows.                   *)

NoModel == [fitted |-> FALSE]

FNeg(a) == IF IsNan(a) THEN a ELSE [a EXCEPT !.n = -a.n]
FAbs(a) == IF IsNan(a) \/ a.n >= 0 THEN a ELSE FNeg(a)

RECURSIVE Take(_, _, _)
\* the rows of seq at the positions pos, from position i on
Take(seq, pos, i) ==
    IF i > Len(seq) THEN <<>>
    ELSE (IF i \in pos THEN <<seq[i]>> ELSE <<>>) \o Take(seq, pos, i + 1)

Range(seq) == {seq[i] : i \in DOMAIN seq}

\* df[["median_income", "poverty_count", "eviction_rate", "rent_income_ratio"]]
FeatureMatrix(frame) ==
    [i \in 1..Len(frame) |->
        <<frame[i].median_income, frame[i].poverty_count,
          frame[i].eviction_rate, frame[i].rent_income_ratio>>]

\* DataFrame.fillna(0)
FillNaMatrix(X) == [i \in DOMAIN X |-> [j \in DOMAIN X[i] |-> FillNa0(X[i][j])]]

\* df["risk_score"]
Labels(frame) == [i \in 1..Len(frame) |-> frame[i].risk_score]

HasNonFinite(X) == \E i \in DOMAIN X : \E j \in DOMAIN X[i] : ~IsNum(X[i][j])

\* model.fit raises ValueError on no rows and on NaN or infinity
FitRaises(X, y) ==
    Len(X) = 0 \/ HasNonFinite(X) \/ \E i \in DOMAIN y : ~IsNum(y[i])

\* model.predict raises ValueError on no rows and on NaN or infinity
PredictRaises(X) == Len(X) = 0 \/ HasNonFinite(X)

\* the responses a model fitted on labels y may give to the rows Xs
Responses(Xs, y) == IF y = <<>> THEN {<<>>} ELSE [Xs -> Range(y)]

Fit(X, y, f) == [fitted |-> TRUE, X |-> X, y |-> y, response |-> f]

Predict(model, X) == [i \in DOMAIN X |-> model.response[X[i]]]

RECURSIVE SumAbsErr(_, _, _)
SumAbsErr(y, p, i) ==
    IF i > Len(y) THEN Rat(0, 1)
    ELSE FAdd(FAbs(FAdd(y[i], FNeg(p[i]))), SumAbsErr(y, p, i + 1))

\* sklearn.metrics.mean_absolute_error over a non-empty sample
MeanAbsoluteError(y, p) == FDiv(SumAbsErr(y, p, 1), Rat(Len(y), 1))

-----------------------------------------------------------------------------
(* train_model (movemap_helpers.py, movemap_ai.py) and                      *)
(* train_model_on_train_test (movemap_helpers.py)                           *)

\* a threshold that lets only the single-row frame through
IsSingleSample(df) == Len(df) < 2

\* len(df) < 5
IsSmallSample(df) == Len(df) < 5

\* df["predicted_risk"] = df["risk_score"]
FallbackFrame(df) ==
    [i \in 1..Len(df) |-> [predicted_risk |-> df[i].risk_score] @@ df[i]]

\* df["predicted_risk"] = model.predict(X)
WithPredictions(df, p) ==
    [i \in 1..Len(df) |-> [predicted_risk |-> p[i]] @@ df[i]]

\* train_test_split(test_size=0.2): n_test = ceil(0.2 * n)
TestSize(n) == (2 * n + 9) \div 10

\* the test positions a shuffle may pick
TestSplits(n) == {te \in SUBSET (1..n) : Cardinality(te) = TestSize(n)}

\* every position, the withheld ones too
TrainPositionsAll(n, te) == 1..n

\* the positions of Xtr, ytr: those the split did not withhold
TrainPositions(n, te) == (1..n) \ te

\* X of train_model: movemap_ai fills NaN with 0, movemap_helpers does not
TrainModelX(df, module) ==
    IF module = "ai" THEN FillNaMatrix(FeatureMatrix(df)) ELSE FeatureMatrix(df)

Raised(fn, module, tr, te, est) ==
    [fn |-> fn, module |-> module, train |-> tr, test |-> te, raised |-> "ValueError",
     model |-> NoModel, df |-> <<>>, mae |-> Nan,
     fit_rows |-> {}, score_rows |-> {}, est_rows |-> est]

\* train_model on a frame of fewer than five rows
TrainModelSmall(df, module, s) ==
    [fn |-> "train_model", module |-> module, train |-> s, test |-> s, raised |-> None,
     model |-> NoModel, df |-> FallbackFrame(df), mae |-> Rat(0, 1),
     fit_rows |-> {}, score_rows |-> {}, est_rows |-> {}]

\* train_model on a frame of at least five rows; te is the split's test part
\* and f the fitted model's response
TrainModelFit(df, module, s, te, f) ==
    LET X == TrainModelX(df, module)
        y == Labels(df)
        tr == TrainPositions(Len(df), te)
        Xtr == Take(X, tr, 1)
        ytr == Take(y, tr, 1)
        Xte == Take(X, te, 1)
        yte == Take(y, te, 1)
        model == Fit(Xtr, ytr, f)
    IN  IF FitRaises(Xtr, ytr) THEN Raised("train_model", module, s, s, Range(Xtr))
        ELSE IF PredictRaises(Xte) \/ PredictRaises(X)
        THEN Raised("train_model", module, s, s, Range(X))
        ELSE [fn |-> "train_model", module |-> module, train |-> s, test |-> s,
              raised |-> None, model |-> model,
              df |-> WithPredictions(df, Predict(model, X)),
              mae |-> MeanAbsoluteError(yte, Predict(model, Xte)),
              fit_rows |-> {<<s, i>> : i \in tr},
              score_rows |-> {<<s, i>> : i \in te},
              est_rows |-> Range(X)]

\* what a call of train_model leaves to chance: the split and the fitted response
TrainModelChoices(df, module) ==
    IF IsSmallSample(df) THEN {[te |-> {}, f |-> <<>>]}
    ELSE UNION {{[te |-> te, f |-> f] :
                    f \in Responses(Range(TrainModelX(df, module)),
                                    Take(Labels(df), TrainPositions(Len(df), te), 1))} :
                te \in TestSplits(Len(df))}

\* train_model(df) on the frame named s
TrainModel(df, module, s, c) ==
    IF IsSmallSample(df) THEN TrainModelSmall(df, module, s)
    ELSE TrainModelFit(df, module, s, c.te, c.f)

\* train_model_on_train_test(train_df, test_df, predict_df); tr and te name the
\* frames passed, predict is the predict_df frame or <<>> with has_predict FALSE
TrainOnTrainTest(train_df, test_df, tr, te, has_predict, predict_df, f) ==
    LET Xtr == FeatureMatrix(train_df)
        ytr == Labels(train_df)
        Xte == FeatureMatrix(test_df)
        yte == Labels(test_df)
        Xp == FeatureMatrix(predict_df)
        model == Fit(Xtr, ytr, f)
    IN  IF FitRaises(Xtr, ytr)
        THEN Raised("train_model_on_train_test", "helpers", tr, te, Range(Xtr))
        ELSE IF PredictRaises(Xte)
        THEN Raised("train_model_on_train_test", "helpers", tr, te,
                    Range(Xtr) \cup Range(Xte))
        ELSE IF has_predict /\ PredictRaises(Xp)
        THEN Raised("train_model_on_train_test", "helpers", tr, te,
                    Range(Xtr) \cup Range(Xte) \cup Range(Xp))
        ELSE [fn |-> "train_model_on_train_test", module |-> "helpers",
              train |-> tr, test |-> te, raised |-> None, model |-> model,
              df |-> IF has_predict THEN WithPredictions(predict_df, Predict(model, Xp))
                     ELSE <<>>,
              mae |-> MeanAbsoluteError(yte, Predict(model, Xte)),
              fit_rows |-> {<<tr, i>> : i \in 1..Len(train_df)},
              score_rows |-> {<<te, i>> : i \in 1..Len(test_df)},
              est_rows |-> Range(Xtr) \cup Range(Xte)
                             \cup (IF has_predict THEN Range(Xp) ELSE {})]

-----------------------------------------------------------------------------
(* The units at rest *)

NoResult == [fn |-> "none"]

Roles == {"train", "test", "target"}

ColorIdle == risk_value = Rat(0, 1) /\ color = None
FeatIdle == impl = "helpers" /\ census = <<>> /\ feats = <<>>
NoArgs == [tract_id |-> None, name |-> None, n |-> 0]
ModelIdle ==
    /\ frames = [s \in Roles |-> <<>>]
    /\ stage = [s \in Roles |-> "none"]
    /\ args = [s \in Roles |-> NoArgs]

NoCoords == [lat |-> None, lon |-> None]
NoTract == [tract_id |-> None, county |-> None, state |-> None]
NothingShown == [risk_val |-> None]

RunIdle ==
    /\ pc = "idle" /\ user_input = "Knoxville, TN"
    /\ coords = NoCoords /\ tract = NoTract /\ data = <<>>
    /\ steps = <<>> /\ errors = {} /\ infos = {} /\ shown = NothingShown

-----------------------------------------------------------------------------
(* scale_color, called once on each argument *)

InitColor ==
    /\ risk_value \in RiskInputs /\ color = None
    /\ FeatIdle /\ ModelIdle /\ RunIdle /\ result = NoResult

CallScaleColor ==
    /\ color = None
    /\ color' = scale_color(risk_value)
    /\ UNCHANGED <<risk_value, featVars, modelVars, result, runVars>>

NextColor == CallScaleColor

SpecColor == InitColor /\ [][NextColor]_vars

-----------------------------------------------------------------------------
(* make_features, called up to twice on the same frame, and the frame it     *)
(* returns handed on to train_model_on_train_test                            *)

\* a call that returned v
Returned(v) == [raised |-> None, value |-> v]

InitFeatures ==
    /\ feats = <<>>
    /\ \/ impl = "helpers" /\ census \in {<<r>> : r \in HelpersRowInputs}
       \/ impl = "ai" /\ census \in {<<r>> : r \in AiRowInputs}
    /\ ColorIdle /\ ModelIdle /\ RunIdle /\ result = NoResult

CallHelpersMakeFeatures ==
    /\ impl = "helpers"
    /\ Len(feats) < 2
    /\ result = NoResult
    /\ feats' = Append(feats, Returned(HelpersMakeFeatures(census)))
    /\ UNCHANGED <<impl, census, colorVars, modelVars, result, runVars>>

CallAiMakeFeatures ==
    /\ impl = "ai"
    /\ Len(feats) < 2
    /\ result = NoResult
    /\ \E ev \in AiEvictionDraws, rc \in AiRentDraws :
          feats' = Append(feats, Returned(AiMakeFeatures(census, ev, rc)))
    /\ UNCHANGED <<impl, census, colorVars, modelVars, result, runVars>>

\* train_model on the frame the last call returned; the frame gets its
\* predicted_risk column in place
FitOnFeatures ==
    /\ feats # <<>>
    /\ result = NoResult
    /\ \E c \in TrainModelChoices(feats[Len(feats)].value, impl) :
          result' = TrainModel(feats[Len(feats)].value, impl, "features", c)
    /\ feats' = IF result'.raised = None
                THEN [feats EXCEPT ![Len(feats)].value = result'.df]
                ELSE feats
    /\ UNCHANGED <<impl, census, colorVars, modelVars, runVars>>

\* train_model_on_train_test with the frame the first call returned as train_df
\* and the frame the last call returned as test_df
FitOnTrainTestFeatures ==
    /\ impl = "helpers"
    /\ feats # <<>>
    /\ result = NoResult
    /\ LET train_df == feats[1].value
           test_df == feats[Len(feats)].value
       IN  \E f \in Responses(Range(FeatureMatrix(test_df)), Labels(train_df)) :
              result' = TrainOnTrainTest(train_df, test_df, "features", "features",
                                         FALSE, <<>>, f)
    /\ UNCHANGED <<featVars, colorVars, modelVars, runVars>>

NextFeatures ==
    \/ CallHelpersMakeFeatures
    \/ CallAiMakeFeatures
    \/ FitOnFeatures
    \/ FitOnTrainTestFeatures

SpecFeatures == InitFeatures /\ [][NextFeatures]_vars

-----------------------------------------------------------------------------
(* A modelling run: the frames are generated, featured and trained on *)

TractIds == {"47093000100"}
Names == {"Knoxville, TN"}

InitModel ==
    /\ ModelIdle
    /\ result = NoResult
    /\ ColorIdle /\ FeatIdle /\ RunIdle

MaxN(s) == IF s = "train" THEN MaxRows ELSE MaxTestRows

\* what the n passes of the loop draw: the model lets the draws repeat with
\* period two
DrawSequences(n) ==
    {[k \in 1..n |-> IF k % 2 = 1 THEN a ELSE b] : a, b \in SyntheticDraws}

\* make_synthetic_dataset(tract_id, name, n) makes the train or the test frame
CallMakeSyntheticDataset(s) ==
    /\ s \in {"train", "test"}
    /\ stage[s] = "none"
    /\ result = NoResult
    /\ \E tract_id \in TractIds, name \in Names, n \in 0..MaxN(s) :
         \E draws \in DrawSequences(n) :
            /\ frames' = [frames EXCEPT
                             ![s] = make_synthetic_dataset(tract_id, name, n, draws)]
            /\ args' = [args EXCEPT ![s] = [tract_id |-> tract_id, name |-> name, n |-> n]]
    /\ stage' = [stage EXCEPT ![s] = "raw"]
    /\ UNCHANGED <<colorVars, featVars, result, runVars>>

\* generate_dummy_census_for_tract(tract_id, name) makes the target frame
CallGenerateDummy ==
    /\ stage["target"] = "none"
    /\ result = NoResult
    /\ \E tract_id \in TractIds, name \in Names, draw \in DummyDraws :
          /\ frames' = [frames EXCEPT
                           !["target"] = HelpersGenerateDummy(tract_id, name, draw)]
          /\ args' = [args EXCEPT
                         !["target"] = [tract_id |-> tract_id, name |-> name, n |-> 1]]
    /\ stage' = [stage EXCEPT !["target"] = "raw"]
    /\ UNCHANGED <<colorVars, featVars, result, runVars>>

\* make_features on a generated frame
CallMakeFeatures(s) ==
    /\ stage[s] = "raw"
    /\ result = NoResult
    /\ frames' = [frames EXCEPT ![s] = HelpersMakeFeatures(frames[s])]
    /\ stage' = [stage EXCEPT ![s] = "featured"]
    /\ UNCHANGED <<args, colorVars, featVars, result, runVars>>

\* train_model(df) of either module on a featured frame; the frame gets its
\* predicted_risk column in place
CallTrainModel(module, s) ==
    /\ stage[s] = "featured"
    /\ result = NoResult
    /\ \E c \in TrainModelChoices(frames[s], module) :
          result' = TrainModel(frames[s], module, s, c)
    /\ frames' = IF result'.raised = None
                 THEN [frames EXCEPT ![s] = result'.df]
                 ELSE frames
    /\ UNCHANGED <<stage, args, colorVars, featVars, runVars>>

\* train_model_on_train_test(train_df, test_df) on two featured frames
CallTrainOnTrainTest(tr, te) ==
    /\ stage[tr] = "featured" /\ stage[te] = "featured"
    /\ result = NoResult
    /\ \E f \in Responses(Range(FeatureMatrix(frames[te])), Labels(frames[tr])) :
          result' = TrainOnTrainTest(frames[tr], frames[te], tr, te, FALSE, <<>>, f)
    /\ UNCHANGED <<modelVars, colorVars, featVars, runVars>>

\* train_model_on_train_test(train_df, test_df, predict_df) with the target
\* frame to predict
CallTrainOnTrainTestPredict(tr, te) ==
    /\ stage[tr] = "featured" /\ stage[te] = "featured" /\ stage["target"] = "featured"
    /\ result = NoResult
    /\ \E f \in Responses(Range(FeatureMatrix(frames[te]))
                            \cup Range(FeatureMatrix(frames["target"])),
                         Labels(frames[tr])) :
          result' = TrainOnTrainTest(frames[tr], frames[te], tr, te,
                                     TRUE, frames["target"], f)
    /\ UNCHANGED <<modelVars, colorVars, featVars, runVars>>

NextModel ==
    \/ \E s \in {"train", "test"} : CallMakeSyntheticDataset(s)
    \/ CallGenerateDummy
    \/ \E s \in Roles : CallMakeFeatures(s)
    \/ \E module \in {"helpers", "ai"}, s \in Roles : CallTrainModel(module, s)
    \/ \E tr \in {"train", "test"}, te \in {"train", "test"} : CallTrainOnTrainTest(tr, te)
    \/ \E tr \in {"train", "test"}, te \in {"train", "test"} :
          CallTrainOnTrainTestPredict(tr, te)

SpecModel == InitModel /\ [][NextModel]_vars

-----------------------------------------------------------------------------
(* movemap_ai.py: the Analyze Location handler, one step per call it makes *)

\* movemap_ai.generate_dummy_census_for_tract: random.randint(30000, 90000),
\* random.randint(100, 800)
AiDummyDraws ==
    {[median_income |-> Rat(30000, 1), poverty_count |-> Rat(100, 1)],
     [median_income |-> Rat(90000, 1), poverty_count |-> Rat(800, 1)]}

\* five rows, as a generator of a training sample would make
AiGenerateDummyFive(tract_id, name, draw) ==
    [i \in 1..5 |-> [GEOID |-> tract_id, NAME |-> name] @@ draw]

AiGenerateDummy(tract_id, name, draw) ==
    << [GEOID |-> tract_id, NAME |-> name] @@ draw >>

\* what the Census API can answer: no usable answer (get_single_tract_data
\* returns None), a header with no row, or the tract's row
ApiAnswers ==
    {[ok |-> FALSE, rows |-> <<>>],
     [ok |-> TRUE, rows |-> <<>>],
     [ok |-> TRUE, rows |-> << [NAME |-> "Census Tract 1", median_income |-> Rat(52000, 1),
                                poverty_count |-> Rat(300, 1)] >>]}

\* get_single_tract_data: the answer's rows with GEOID added
ApiFrame(answer, tract_id) ==
    [i \in 1..Len(answer.rows) |-> [GEOID |-> tract_id] @@ answer.rows[i]]

\* get_single_tract_data_or_dummy: census is None or census.empty
get_single_tract_data_or_dummy(answer, tract_id, name, draw) ==
    IF ~answer.ok \/ ApiFrame(answer, tract_id) = <<>>
    THEN AiGenerateDummy(tract_id, name, draw)
    ELSE ApiFrame(answer, tract_id)

\* st.warning of get_single_tract_data, st.info of get_single_tract_data_or_dummy
DataMessages(answer, tract_id) ==
    (IF ~answer.ok THEN {"Census API failed"} ELSE {})
        \cup (IF ~answer.ok \/ ApiFrame(answer, tract_id) = <<>>
              THEN {"Using generated data"} ELSE {})

\* a test that lets every lookup result through
NeverMissing(v) == FALSE

\* if lat is None
CoordsMissing(c) == c.lat = None

\* if tract_id is None
TractMissing(t) == t.tract_id = None

GeocodeAnswers ==
    {[raised |-> FALSE, loc |-> NoCoords],
     [raised |-> TRUE, loc |-> NoCoords],
     [raised |-> FALSE, loc |-> [lat |-> "35.96", lon |-> "-83.92"]],
     [raised |-> FALSE, loc |-> [lat |-> "40.71", lon |-> "-74.01"]]}

TractAnswers ==
    {[raised |-> TRUE, area |-> NoTract],
     [raised |-> FALSE,
      area |-> [tract_id |-> "47093000100", county |-> "Knox", state |-> "TN"]],
     [raised |-> FALSE,
      area |-> [tract_id |-> "36061000700", county |-> "New York", state |-> "NY"]]}

InitRun ==
    /\ pc = "idle"
    /\ user_input \in {"Knoxville, TN", "37996"}
    /\ coords = NoCoords /\ tract = NoTract /\ data = <<>>
    /\ steps = <<>> /\ errors = {} /\ infos = {} /\ shown = NothingShown
    /\ result = NoResult
    /\ ColorIdle /\ FeatIdle /\ ModelIdle

\* st.button("Analyze Location") is pressed
ClickAnalyze ==
    /\ pc = "idle"
    /\ pc' = "coords"
    /\ UNCHANGED <<user_input, coords, tract, data, steps, errors, infos, shown, result,
                   colorVars, featVars, modelVars>>

\* Step 1: get_location_coords(user_input), then the test of lat
StepGetCoords ==
    /\ pc = "coords"
    /\ \E a \in GeocodeAnswers :
          /\ coords' = a.loc
          /\ errors' = errors \cup (IF a.raised THEN {"Geocoding error"} ELSE {})
                              \cup (IF CoordsMissing(a.loc)
                                    THEN {"Location not found"} ELSE {})
          /\ pc' = IF CoordsMissing(a.loc) THEN "done" ELSE "tract"
    /\ steps' = Append(steps, "get_location_coords")
    /\ UNCHANGED <<user_input, tract, data, infos, shown, result,
                   colorVars, featVars, modelVars>>

\* Step 2: get_census_tract_from_coords(lat, lon), then the test of tract_id
StepGetTract ==
    /\ pc = "tract"
    /\ \E a \in TractAnswers :
          /\ tract' = a.area
          /\ errors' = errors \cup (IF a.raised THEN {"Tract lookup error"} ELSE {})
                              \cup (IF TractMissing(a.area)
                                    THEN {"Could not find tract"} ELSE {})
          /\ pc' = IF TractMissing(a.area) THEN "done" ELSE "data"
    /\ steps' = Append(steps, "get_census_tract_from_coords")
    /\ UNCHANGED <<user_input, coords, data, infos, shown, result,
                   colorVars, featVars, modelVars>>

\* Step 3: get_single_tract_data_or_dummy(tract_id, name=user_input), then the
\* test of census
StepGetData ==
    /\ pc = "data"
    /\ \E answer \in ApiAnswers, draw \in AiDummyDraws :
          /\ data' = get_single_tract_data_or_dummy(answer, tract.tract_id, user_input, draw)
          /\ infos' = infos \cup DataMessages(answer, tract.tract_id)
    /\ errors' = errors \cup (IF data' = <<>> THEN {"No data"} ELSE {})
    /\ pc' = IF data' = <<>> THEN "done" ELSE "features"
    /\ steps' = Append(steps, "get_single_tract_data_or_dummy")
    /\ UNCHANGED <<user_input, coords, tract, shown, result,
                   colorVars, featVars, modelVars>>

\* df = make_features(census)
StepMakeFeatures ==
    /\ pc = "features"
    /\ \E ev \in AiEvictionDraws, rc \in AiRentDraws :
          data' = AiMakeFeatures(data, ev, rc)
    /\ pc' = "model"
    /\ steps' = Append(steps, "make_features")
    /\ UNCHANGED <<user_input, coords, tract, errors, infos, shown, result,
                   colorVars, featVars, modelVars>>

\* Step 4: model, df, mae = train_model(df)
StepTrainModel ==
    /\ pc = "model"
    /\ \E c \in TrainModelChoices(data, "ai") :
          result' = TrainModel(data, "ai", "run", c)
    /\ data' = IF result'.raised = None THEN result'.df ELSE data
    /\ pc' = IF result'.raised = None THEN "map" ELSE "failed"
    /\ steps' = Append(steps, "train_model")
    /\ UNCHANGED <<user_input, coords, tract, errors, infos, shown,
                   colorVars, featVars, modelVars>>

\* the metric and the caption, then make_map(lat, lon, df, user_input)
StepDisplayAndMap ==
    /\ pc = "map"
    /\ shown' = [risk_val |-> data[1].predicted_risk, mae |-> result.mae,
                 marker |-> <<coords.lat, coords.lon>>]
    /\ pc' = "done"
    /\ steps' = Append(steps, "make_map")
    /\ UNCHANGED <<user_input, coords, tract, data, errors, infos, result,
                   colorVars, featVars, modelVars>>

NextRun ==
    \/ ClickAnalyze
    \/ StepGetCoords
    \/ StepGetTract
    \/ StepGetData
    \/ StepMakeFeatures
    \/ StepTrainModel
    \/ StepDisplayAndMap

SpecRun == InitRun /\ [][NextRun]_vars

-----------------------------------------------------------------------------
(* Properties of scale_color *)

ColorReturned == color # None

\* C4: scale_color clamps and never fails: scale_color(0) is the first anchor
\* string exactly, scale_color(100) the last anchor string exactly, every
\* risk <= 0 returns the same string as scale_color(0) and every risk >= 100
\* the same string as scale_color(100).
C4_ClampReturnsAnchorString ==
    ColorReturned =>
        /\ risk_value = Rat(0, 1) => color = colors[1]
        /\ risk_value = Rat(100, 1) => color = colors[Len(colors)]
        /\ FLe(risk_value, Rat(0, 1)) => color = scale_color(Rat(0, 1))
        /\ FLe(Rat(100, 1), risk_value) => color = scale_color(Rat(100, 1))

IsHexColor(c) ==
    /\ Len(c) = 7
    /\ c[1] = "#"
    /\ \A j \in 2..7 : \E v \in 1..16 : c[j] = HexDigits[v] \/ c[j] = HexUpper[v]

Between(x, a, b) == (a <= x /\ x <= b) \/ (b <= x /\ x <= a)

\* channel ch is the integer part of c1 + (c2 - c1) * (r - lo) / 25
IsLinearChannel(ch, c1, c2, r, lo) ==
    LET num == c1 * 25 * r.d + (c2 - c1) * (r.n - lo * r.d)
    IN  ch * 25 * r.d <= num /\ num < (ch + 1) * 25 * r.d

\* C10: for a risk strictly between two adjacent anchors (0, 25, 50, 75, 100)
\* scale_color returns a well-formed "#rrggbb" string, each of whose channels
\* is the truncated linear interpolation of the two bounding anchors' channels
\* and so lies between them; at 25, 50 and 75 the result is that anchor's colour.
C10_InterpolatesBetweenAnchors ==
    ColorReturned =>
        /\ \A i \in 1..4 :
             (IsNum(risk_value) /\ FGt(risk_value, Rat(25 * (i - 1), 1))
                                /\ FGt(Rat(25 * i, 1), risk_value)) =>
                /\ IsHexColor(color)
                /\ \A j \in 1..3 :
                     LET c1 == HexToRgb(colors[i])[j]
                         c2 == HexToRgb(colors[i + 1])[j]
                         ch == HexToRgb(color)[j]
                     IN  /\ IsLinearChannel(ch, c1, c2, risk_value, 25 * (i - 1))
                         /\ Between(ch, c1, c2)
        /\ \A i \in 2..4 :
             risk_value = Rat(25 * (i - 1), 1) =>
                /\ IsHexColor(color)
                /\ HexToRgb(color) = HexToRgb(colors[i])

\* a colour was computed for a risk strictly inside the second segment
C10_Witness ==
    /\ ColorReturned
    /\ risk_value = Rat(75, 2)
    /\ color = <<"#", "f", "f", "b", "0", "0", "d">>

-----------------------------------------------------------------------------
(* Properties of the generators and of the training calls *)

Trained == result # NoResult

\* C1: train_model on a frame of fewer than 5 rows returns the frame with
\* predicted_risk equal to risk_score in every row, a mean absolute error of 0
\* and no model.
C1_SmallSampleFallback ==
    (Trained /\ result.fn = "train_model" /\ Len(frames[result.train]) < 5) =>
        /\ result.raised = None
        /\ result.model = NoModel
        /\ result.mae = Rat(0, 1)
        /\ Len(result.df) = Len(frames[result.train])
        /\ \A i \in 1..Len(result.df) :
              /\ result.df[i].predicted_risk = result.df[i].risk_score
              /\ result.df[i].risk_score = frames[result.train][i].risk_score

\* train_model took the fallback on a frame of four rows
C1_Witness ==
    /\ Trained
    /\ result.fn = "train_model"
    /\ Len(result.df) = 4
    /\ result.df[4].predicted_risk = result.df[4].risk_score
    /\ result.model = NoModel

\* C2: every fitting entry point skips the fit and returns no model when the
\* frame it would fit on has fewer than 5 rows, and returns a fitted model only
\* when that frame has at least 5 rows.
C2_NoModelBelowFiveRows ==
    Trained =>
        LET n == Len(frames[result.train])
        IN  /\ n < 5 => (~result.model.fitted /\ result.est_rows = {})
            /\ result.model.fitted => n >= 5

AllRows(s) == {<<s, i>> : i \in 1..Len(frames[s])}

\* C7: the mean absolute error is computed over rows the model was not fitted
\* on: train_model_on_train_test fits on all of train_df and scores all of
\* test_df, which share no row when they are two generated frames, and
\* train_model scores the ceil(0.2 n) rows its split withheld from the fit.
C7_ScoredRowsNotFitted ==
    (Trained /\ result.raised = None /\ result.model.fitted) =>
        /\ Len(result.model.X) = Cardinality(result.fit_rows)
        /\ result.fn = "train_model" =>
              /\ result.fit_rows \cap result.score_rows = {}
              /\ result.fit_rows \cup result.score_rows = AllRows(result.train)
              /\ 5 * Cardinality(result.score_rows) >= Len(frames[result.train])
              /\ 5 * (Cardinality(result.score_rows) - 1) < Len(frames[result.train])
        /\ result.fn = "train_model_on_train_test" =>
              /\ result.fit_rows = AllRows(result.train)
              /\ result.score_rows = AllRows(result.test)
              /\ result.train # result.test =>
                    result.fit_rows \cap result.score_rows = {}

\* train_model fitted a model on four of six rows and scored the other two
C7_Witness ==
    /\ Trained
    /\ result.fn = "train_model"
    /\ result.model.fitted
    /\ Cardinality(result.score_rows) = 2
    /\ Cardinality(result.fit_rows) = 4

InRange(x, lo, hi) == FLe(lo, x) /\ FLe(x, hi)

\* C9: make_synthetic_dataset(tract_id, name, n) returns exactly n rows (none
\* for n = 0); every row has GEOID = tract_id, row i (from 1) has NAME = name
\* followed by " #i", and median_income in [30000, 110000], poverty_count in
\* [50, 1200], eviction_rate in [0.5, 12.0], rent_change_12m in [0.0, 0.15].
C9_SyntheticDatasetShape ==
    \A s \in {"train", "test"} :
        stage[s] # "none" =>
            /\ Len(frames[s]) = args[s].n
            /\ \A i \in 1..Len(frames[s]) :
                  LET row == frames[s][i]
                  IN  /\ row.GEOID = args[s].tract_id
                      /\ row.NAME = args[s].name \o " #" \o ToString(i)
                      /\ InRange(row.median_income, Rat(30000, 1), Rat(110000, 1))
                      /\ InRange(row.poverty_count, Rat(50, 1), Rat(1200, 1))
                      /\ InRange(row.eviction_rate, Rat(1, 2), Rat(12, 1))
                      /\ InRange(row.rent_change_12m, Rat(0, 1), Rat(15, 100))

\* one call made no rows for n = 0 and another made two
C9_Witness ==
    /\ stage["train"] = "raw" /\ args["train"].n = 0 /\ frames["train"] = <<>>
    /\ stage["test"] = "raw" /\ args["test"].n = 2
    /\ frames["test"][2].NAME = "Knoxville, TN #2"

-----------------------------------------------------------------------------
(* Properties of make_features *)

Positive(a) == FGt(a, Rat(0, 1))

\* 100 * (0.5 r + 0.3 p / 1000 + 0.2 e / 10), term by term
ExpectedRisk(r, p, e) ==
    FAdd(FAdd(FMul(Rat(50, 1), r), FMul(Rat(3, 100), p)), FMul(Rat(2, 1), e))

\* C5: make_features given a row with median_income <= 0 fails with
\* InvalidFeatureInput: no row with an infinite or NaN rent_income_ratio or
\* risk_score is returned or handed on to a fit.
C5_NonPositiveIncomeRejected ==
    \A k \in DOMAIN feats :
        (\E i \in DOMAIN census : FLe(census[i].median_income, Rat(0, 1))) =>
            /\ feats[k].raised = "InvalidFeatureInput"
            /\ \A i \in DOMAIN feats[k].value :
                  /\ IsNum(feats[k].value[i].rent_income_ratio)
                  /\ IsNum(feats[k].value[i].risk_score)

\* C6 as claimed: for a row with median_income > 0, make_features of either
\* module yields rent_income_ratio = rent_change_12m / median_income and
\* risk_score = 100 * (0.5 ratio + 0.3 poverty / 1000 + 0.2 eviction / 10) from
\* the row's own attributes, two calls on the same input agree, and zero
\* ratio, poverty and eviction give risk_score 0.
C6_FeaturesDeterministic ==
    \A k \in DOMAIN feats : \A i \in DOMAIN census :
        Positive(census[i].median_income) =>
            LET out == feats[k].value[i]
            IN  /\ out.rent_income_ratio = FDiv(out.rent_change_12m, census[i].median_income)
                /\ out.risk_score = ExpectedRisk(out.rent_income_ratio, out.poverty_count,
                                                 out.eviction_rate)
                /\ out.rent_income_ratio = feats[1].value[i].rent_income_ratio
                /\ out.risk_score = feats[1].value[i].risk_score
                /\ (/\ out.rent_income_ratio = Rat(0, 1)
                    /\ out.poverty_count = Rat(0, 1)
                    /\ out.eviction_rate = Rat(0, 1)) => out.risk_score = Rat(0, 1)

\* C6 as amended: the claim for movemap_helpers.make_features; for
\* movemap_ai.make_features, which draws rent_change_12m and eviction_rate
\* itself, the formula on the drawn values with a missing one counted as 0.
C6_HelpersFeaturesFormula ==
    \A k \in DOMAIN feats : \A i \in DOMAIN census :
        Positive(census[i].median_income) =>
            LET in == census[i]
                out == feats[k].value[i]
            IN  /\ impl = "helpers" =>
                      /\ out.median_income = in.median_income
                      /\ out.poverty_count = in.poverty_count
                      /\ out.eviction_rate = in.eviction_rate
                      /\ out.rent_change_12m = in.rent_change_12m
                      /\ out.rent_income_ratio = FDiv(in.rent_change_12m, in.median_income)
                      /\ out.risk_score = ExpectedRisk(out.rent_income_ratio,
                                                       in.poverty_count, in.eviction_rate)
                      /\ out.rent_income_ratio = feats[1].value[i].rent_income_ratio
                      /\ out.risk_score = feats[1].value[i].risk_score
                      /\ (/\ out.rent_income_ratio = Rat(0, 1)
                          /\ in.poverty_count = Rat(0, 1)
                          /\ in.eviction_rate = Rat(0, 1)) => out.risk_score = Rat(0, 1)
                /\ impl = "ai" =>
                      /\ out.rent_income_ratio = FDiv(out.rent_change_12m, in.median_income)
                      /\ out.risk_score = ExpectedRisk(FillNa0(out.rent_income_ratio),
                                                       in.poverty_count,
                                                       FillNa0(out.eviction_rate))

\* movemap_helpers.make_features was called twice on a row with positive income
C6_Witness ==
    /\ impl = "helpers"
    /\ Len(feats) = 2
    /\ census[1].median_income = Rat(30000, 1)
    /\ feats[2].value[1].rent_income_ratio = Rat(1, 200000)
    /\ feats[2].value[1].risk_score = Rat(240001, 4000)

\* C8: a missing eviction_rate, rent_change_12m or rent_income_ratio does not
\* propagate: make_features counts it as 0, so risk_score is a number, and no
\* NaN reaches the estimator.
C8_MissingCountsAsZero ==
    /\ \A k \in DOMAIN feats : \A i \in DOMAIN census :
          Positive(census[i].median_income) => IsNum(feats[k].value[i].risk_score)
    /\ Trained => \A x \in result.est_rows : \A j \in DOMAIN x : ~IsNan(x[j])

-----------------------------------------------------------------------------
(* Properties of the Analyze Location handler *)

RunOrder ==
    <<"get_location_coords", "get_census_tract_from_coords",
      "get_single_tract_data_or_dummy", "make_features", "train_model", "make_map">>

ModellingSteps ==
    {"get_single_tract_data_or_dummy", "make_features", "train_model", "make_map"}

\* C3: a run whose geocoding returns no coordinates, or whose tract lookup
\* returns no tract id, reports a "not found" error and calls none of data
\* generation, make_features, train_model, make_map; those are called only
\* after both lookups succeeded, in the order coordinates, tract, data,
\* features, model, map.
C3_NotFoundStopsBeforeModelling ==
    /\ Len(steps) <= Len(RunOrder)
    /\ \A i \in 1..Len(steps) : steps[i] = RunOrder[i]
    /\ (Len(steps) >= 1 /\ coords.lat = None) =>
          /\ pc = "done"
          /\ "Location not found" \in errors
          /\ steps = <<"get_location_coords">>
    /\ (Len(steps) >= 2 /\ tract.tract_id = None) =>
          /\ pc = "done"
          /\ "Could not find tract" \in errors
          /\ Len(steps) = 2
    /\ (\E i \in 1..Len(steps) : steps[i] \in ModellingSteps) =>
          coords.lat # None /\ tract.tract_id # None

\* a run found coordinates, found no tract and stopped there
C3_Witness ==
    /\ pc = "done"
    /\ coords.lat # None
    /\ tract.tract_id = None
    /\ errors = {"Tract lookup error", "Could not find tract"}
    /\ steps = <<"get_location_coords", "get_census_tract_from_coords">>

\* the run fell back on generated data
UsedGenerated == "Using generated data" \in infos

\* C11: in the movemap_ai run, whenever the Census lookup fails and generated
\* data is used, the frame that reaches train_model has exactly one row, so
\* the run takes the small-sample branch: no model is fitted, the reported
\* mean absolute error is 0 and the displayed predicted risk is the formula's
\* risk_score; the "No data" error is never shown.
C11_GeneratedRunTakesFallback ==
    /\ "No data" \notin errors
    /\ UsedGenerated =>
          /\ Len(data) = 1
          /\ pc \in {"features", "model", "map", "done"}
          /\ Trained =>
                /\ result.raised = None
                /\ result.model = NoModel
                /\ result.est_rows = {}
                /\ result.mae = Rat(0, 1)
                /\ data[1].predicted_risk = data[1].risk_score
          /\ shown # NothingShown =>
                /\ shown.risk_val = data[1].risk_score
                /\ shown.mae = Rat(0, 1)

\* a run on generated data reached the map with the fallback's figures
C11_Witness ==
    /\ pc = "done"
    /\ UsedGenerated
    /\ "Census API failed" \in infos
    /\ Len(data) = 1
    /\ result.model = NoModel
    /\ shown # NothingShown
    /\ shown.mae = Rat(0, 1)
    /\ shown.risk_val = data[1].risk_score

=============================================================================
